---- MODULE Spec2Model ----
(***************************************************************************)
(* State-machine model of the job-search client: the job-items context     *)
(* provider (search query, sort, pagination), the useDebounce hook, the    *)
(* bookmark store on local storage (useLocalStorage) and the active-id     *)
(* selector with the job-item detail query.                                *)
(*                                                                         *)
(* Strings that the code converts (JSON text, URL fragments) are sequences *)
(* of one-character strings.  relevanceScore is scaled to an integer.      *)
(***************************************************************************)
EXTENDS Integers, Sequences, FiniteSets, TLC

VARIABLES
  \* ---- JobItemsContextProvider
  RESULTS_PER_PAGE,      \* the imported page-size constant, fixed at start
  debouncedSearchText,   \* context value read by the provider
  searchCache,           \* query cache, one entry per ['job-items', text]
  currentPage,
  sortBy,
  toast,                 \* <<>> or <<message>>: the latest toast.error call
  \* ---- useDebounce
  value,                 \* the hook's input
  debouncedValue,
  timers,                \* pending setTimeout callbacks: [due, v]
  now,
  changeLog,             \* history: input changes [t, v]
  outLog,                \* history: setDebouncedValue calls [t, v]
  \* ---- useLocalStorage / bookmarks
  phase,                 \* "unloaded" | "running" | "crashed"
  storage,               \* localStorage entry under the bookmark key
  bookmarkedIds,
  \* ---- useActiveId / useJobItem
  mounted,
  hash,                  \* window.location.hash
  activeId,
  itemCache              \* query cache, one entry per ['job-item', id]

jobVars      == <<RESULTS_PER_PAGE, debouncedSearchText, searchCache, currentPage, sortBy>>
debounceVars == <<value, debouncedValue, timers, now, changeLog, outLog>>
bookmarkVars == <<phase, storage, bookmarkedIds>>
activeVars   == <<mounted, hash, activeId, itemCache>>
vars == <<jobVars, toast, debounceVars, bookmarkVars, activeVars>>

----------------------------------------------------------------------------
(* Bounds of the model *)

MaxPageSize == 2      \* RESULTS_PER_PAGE ranges over 1..MaxPageSize
MaxItems == 3         \* longest job list a response carries
MaxPage == 3          \* currentPage is explored within -MaxPage..MaxPage
MaxChanges == 3       \* input changes fed to useDebounce
MaxId == 4            \* job ids a bookmark toggle names
MaxPresetIds == 1     \* ids in a bookmark array persisted before page load
MaxHashLen == 2       \* characters after "#" in the URL fragment

----------------------------------------------------------------------------
(* Generic helpers *)

Front(s) == SubSeq(s, 1, Len(s) - 1)

Max(a, b) == IF a >= b THEN a ELSE b

Min(a, b) == IF a <= b THEN a ELSE b

\* Array.prototype.slice(start, end) on a sequence: negative indices count
\* from the end, both ends are clamped to the length.
JSSlice(s, start, end) ==
  LET len  == Len(s)
      from == IF start < 0 THEN Max(len + start, 0) ELSE Min(start, len)
      to   == IF end < 0 THEN Max(len + end, 0) ELSE Min(end, len)
  IN  SubSeq(s, from + 1, to)

\* All sequences over S without repetition, of length at most n.
RECURSIVE DistinctSeqs(_, _)
DistinctSeqs(S, n) ==
  IF n = 0 THEN {<<>>}
  ELSE LET shorter == DistinctSeqs(S, n - 1)
       IN  shorter \cup
           {Append(s, x) : <<s, x>> \in
              {p \in shorter \X S : \A i \in 1..Len(p[1]) : p[1][i] # p[2]}}

----------------------------------------------------------------------------
(* handleError (utils) *)

\* A thrown value: an Error instance with a message, a bare string, or
\* anything else.
ErrorObj(msg) == [kind |-> "Error", message |-> msg]

\* The inner `const message` shadows the outer one, so for an Error the
\* outer message keeps its initial "".
handleError(error) ==
  IF error.kind = "Error" THEN ""
  ELSE IF error.kind = "string" THEN error.message
  ELSE "An error occurred"

----------------------------------------------------------------------------
(* HTTP responses and the two fetch functions *)

Undefined == "<undefined>"

JobPool ==
  { [id |-> 1, relevanceScore |-> 90, daysAgo |-> 5],
    [id |-> 2, relevanceScore |-> 95, daysAgo |-> 10],
    [id |-> 3, relevanceScore |-> 90, daysAgo |-> 1] }

JobLists == DistinctSeqs(JobPool, MaxItems)

\* new Error(undefined).message is "".
ErrorMessage(description) == IF description = Undefined THEN "" ELSE description

\* What the server (or the network) may answer to GET ?search=text.
SearchResponses ==
  { [kind |-> "reject", ok |-> FALSE, description |-> Undefined, jobItems |-> <<>>] }
  \cup { [kind |-> "http", ok |-> FALSE, description |-> d, jobItems |-> <<>>] :
           d \in {"Not found", Undefined} }
  \cup { [kind |-> "http", ok |-> TRUE, description |-> Undefined, jobItems |-> l] :
           l \in JobLists }

\* fetchJobItems: a rejected fetch throws (a TypeError), a non-2xx response
\* throws new Error(errorData.description), otherwise the body is returned.
fetchJobItems(res) ==
  IF res.kind = "reject"
    THEN [threw |-> TRUE, error |-> ErrorObj("Failed to fetch"), jobItems |-> <<>>]
  ELSE IF ~res.ok
    THEN [threw |-> TRUE, error |-> ErrorObj(ErrorMessage(res.description)), jobItems |-> <<>>]
  ELSE [threw |-> FALSE, error |-> ErrorObj(""), jobItems |-> res.jobItems]

----------------------------------------------------------------------------
(* useSearchQuery over the query cache *)

SearchTexts == {"", "a", "b"}

IdleEntry == [status |-> "idle", jobItems |-> <<>>]

\* Variant: the enabled option left out, so every key is fetched.
SearchAlwaysEnabled(searchText) == TRUE

\* enabled: Boolean(searchText)
SearchEnabled(searchText) == searchText # ""

\* Observing a key: an enabled query without data that is not already in
\* flight starts its fetch (retry: false, data never stale within the hour).
ObserveSearch(cache, searchText) ==
  IF SearchEnabled(searchText) /\ cache[searchText].status \in {"idle", "error"}
    THEN [cache EXCEPT ![searchText] = [status |-> "fetching", jobItems |-> <<>>]]
    ELSE cache

\* useSearchQuery's return value for the current text.
jobItems ==
  LET e == searchCache[debouncedSearchText]
  IN  [defined |-> e.status = "success", items |-> e.jobItems]

isLoading == searchCache[debouncedSearchText].status = "fetching"

----------------------------------------------------------------------------
(* Derived view state of JobItemsContextProvider *)

totalNumberOfResults == IF jobItems.defined THEN Len(jobItems.items) ELSE 0

\* Variant: the "recent" branch with its operands swapped.
CompareRecentSwapped(a, b, by) ==
  IF by = "relevant" THEN b.relevanceScore - a.relevanceScore
  ELSE IF by = "recent" THEN b.daysAgo - a.daysAgo
  ELSE 0

\* The comparator handed to Array.prototype.sort.
Compare(a, b, by) ==
  IF by = "relevant" THEN b.relevanceScore - a.relevanceScore
  ELSE IF by = "recent" THEN a.daysAgo - b.daysAgo
  ELSE 0

\* Array.prototype.sort is stable: x goes after every element that does not
\* compare greater than it.
RECURSIVE InsertSorted(_, _, _)
InsertSorted(x, s, by) ==
  IF s = <<>> THEN <<x>>
  ELSE IF Compare(s[Len(s)], x, by) > 0
    THEN Append(InsertSorted(x, Front(s), by), s[Len(s)])
    ELSE Append(s, x)

RECURSIVE SortJobItems(_, _)
SortJobItems(s, by) ==
  IF s = <<>> THEN <<>>
  ELSE InsertSorted(s[Len(s)], SortJobItems(Front(s), by), by)

jobItemsSorted ==
  SortJobItems(IF jobItems.defined THEN jobItems.items ELSE <<>>, sortBy)

\* Variant: the slice starts one element late.
PageSliceLateStart(sorted, page, pageSize) ==
  JSSlice(sorted, page * pageSize - pageSize + 1, page * pageSize)

PageSlice(sorted, page, pageSize) ==
  JSSlice(sorted, page * pageSize - pageSize, page * pageSize)

jobItemsSortedAndSliced == PageSlice(jobItemsSorted, currentPage, RESULTS_PER_PAGE)

----------------------------------------------------------------------------
(* Actions of the job-items provider *)

\* The context delivers a new debounced search text; the provider re-renders
\* and useSearchQuery observes the new key.
ChangeSearchText(t) ==
  /\ t # debouncedSearchText
  /\ debouncedSearchText' = t
  /\ searchCache' = ObserveSearch(searchCache, t)
  /\ UNCHANGED <<RESULTS_PER_PAGE, currentPage, sortBy, toast>>
  /\ UNCHANGED <<debounceVars, bookmarkVars, activeVars>>

\* An in-flight search fetch settles.  onError reaches the observer only
\* while it still observes that key.
SettleSearchFetch(t, res) ==
  /\ searchCache[t].status = "fetching"
  /\ LET r == fetchJobItems(res)
     IN  IF r.threw
           THEN /\ searchCache' = [searchCache EXCEPT ![t] = [status |-> "error", jobItems |-> <<>>]]
                /\ toast' = IF t = debouncedSearchText THEN <<handleError(r.error)>> ELSE toast
           ELSE /\ searchCache' = [searchCache EXCEPT ![t] = [status |-> "success", jobItems |-> r.jobItems]]
                /\ toast' = toast
  /\ UNCHANGED <<RESULTS_PER_PAGE, debouncedSearchText, currentPage, sortBy>>
  /\ UNCHANGED <<debounceVars, bookmarkVars, activeVars>>

handleChangePage(direction) ==
  /\ currentPage' = IF direction = "next" THEN currentPage + 1
                    ELSE IF direction = "previous" THEN currentPage - 1
                    ELSE currentPage
  /\ currentPage' \in -MaxPage..MaxPage
  /\ UNCHANGED <<RESULTS_PER_PAGE, debouncedSearchText, searchCache, sortBy, toast>>
  /\ UNCHANGED <<debounceVars, bookmarkVars, activeVars>>

handleChangeSortBy(newSortBy) ==
  /\ currentPage' = 1
  /\ sortBy' = newSortBy
  /\ UNCHANGED <<RESULTS_PER_PAGE, debouncedSearchText, searchCache, toast>>
  /\ UNCHANGED <<debounceVars, bookmarkVars, activeVars>>

----------------------------------------------------------------------------
(* useDebounce *)

Delay == 500

DebounceValues == {"", "a", "b"}

InitialValue == ""

\* Time between one event and the next input change.
Gaps == {0, 10, 500}

\* Variant: the effect returns no cleanup, pending timers stay.
KeepTimeout(ts) == ts

\* The effect's cleanup: clearTimeout(timerId) removes the timer the previous
\* run of the effect created.
ClearTimeout(ts) == {}

\* The effect body: setTimeout(() => setDebouncedValue(value), delay).
SetTimeout(ts, v, t) == ts \cup {[due |-> t + Delay, v |-> v]}

\* The input changes to v, gap after the previous event.  A timer that is
\* due earlier runs first.  The re-render runs the cleanup, then the effect.
ChangeValue(v, gap) ==
  /\ Len(changeLog) < MaxChanges
  /\ v # value
  /\ \A tm \in timers : now + gap <= tm.due
  /\ now' = now + gap
  /\ value' = v
  /\ timers' = SetTimeout(ClearTimeout(timers), v, now')
  /\ changeLog' = Append(changeLog, [t |-> now', v |-> v])
  /\ UNCHANGED <<debouncedValue, outLog>>
  /\ UNCHANGED <<jobVars, toast, bookmarkVars, activeVars>>

\* The earliest pending timer runs at its due time: setDebouncedValue(value)
\* with the value its closure captured.
TimerFire ==
  /\ \E tm \in timers :
       /\ \A o \in timers : tm.due <= o.due
       /\ now' = tm.due
       /\ debouncedValue' = tm.v
       /\ timers' = timers \ {tm}
       /\ outLog' = Append(outLog, [t |-> tm.due, v |-> tm.v])
  /\ UNCHANGED <<value, changeLog>>
  /\ UNCHANGED <<jobVars, toast, bookmarkVars, activeVars>>

----------------------------------------------------------------------------
(* JSON text of the bookmark array, and useLocalStorage *)

DigitChars == <<"0", "1", "2", "3", "4", "5", "6", "7", "8", "9">>

IsDigit(c) == \E d \in 1..10 : DigitChars[d] = c

DigitValue(c) == (CHOOSE d \in 1..10 : DigitChars[d] = c) - 1

RECURSIVE NumberToString(_)
NumberToString(n) ==
  IF n < 10 THEN <<DigitChars[n + 1]>>
  ELSE Append(NumberToString(n \div 10), DigitChars[(n % 10) + 1])

RECURSIVE JoinNumbers(_)
JoinNumbers(ids) ==
  IF ids = <<>> THEN <<>>
  ELSE IF Len(ids) = 1 THEN NumberToString(ids[1])
  ELSE JoinNumbers(Front(ids)) \o <<",">> \o NumberToString(ids[Len(ids)])

\* JSON.stringify of an array of non-negative integers.
JSONStringify(ids) == <<"[">> \o JoinNumbers(ids) \o <<"]">>

\* A JSON number literal without sign, fraction or exponent.
IsNumberLiteral(s) ==
  /\ s # <<>>
  /\ \A i \in 1..Len(s) : IsDigit(s[i])
  /\ (Len(s) > 1 => s[1] # "0")

RECURSIVE StringToNumber(_)
StringToNumber(s) ==
  IF s = <<>> THEN 0
  ELSE 10 * StringToNumber(Front(s)) + DigitValue(s[Len(s)])

\* The elements between the brackets: literals separated by single commas.
RECURSIVE ParseElements(_)
ParseElements(s) ==
  LET commas == {i \in 1..Len(s) : s[i] = ","}
  IN  IF commas = {}
        THEN IF IsNumberLiteral(s)
               THEN [ok |-> TRUE, value |-> <<StringToNumber(s)>>]
               ELSE [ok |-> FALSE, value |-> <<>>]
        ELSE LET c    == CHOOSE i \in commas : \A j \in commas : i <= j
                 head == SubSeq(s, 1, c - 1)
                 rest == ParseElements(SubSeq(s, c + 1, Len(s)))
             IN  IF IsNumberLiteral(head) /\ rest.ok
                   THEN [ok |-> TRUE, value |-> <<StringToNumber(head)>> \o rest.value]
                   ELSE [ok |-> FALSE, value |-> <<>>]

\* JSON.parse on the texts the model stores: an array of numbers parses to
\* its elements, anything else here is a SyntaxError (ok = FALSE).
JSONParse(s) ==
  IF Len(s) >= 2 /\ s[1] = "[" /\ s[Len(s)] = "]"
    THEN IF Len(s) = 2 THEN [ok |-> TRUE, value |-> <<>>]
         ELSE ParseElements(SubSeq(s, 2, Len(s) - 1))
    ELSE [ok |-> FALSE, value |-> <<>>]

\* localStorage.getItem(key): null when absent, else the stored text.
AbsentItem == [present |-> FALSE, text |-> <<>>]

Item(s) == [present |-> TRUE, text |-> s]

\* useState(() => JSON.parse(localStorage.getItem(key) || JSON.stringify(initialValue)))
\* null and "" are falsy.  ok = FALSE is the SyntaxError thrown at render.
UseLocalStorageInit(item, initialValue) ==
  JSONParse(IF ~item.present \/ item.text = <<>>
              THEN JSONStringify(initialValue)
              ELSE item.text)

\* Variant: the effect writes the initial value instead of the current one.
PersistInitialValue(v) == Item(JSONStringify(<<>>))

\* The effect: localStorage.setItem(key, JSON.stringify(value)).
PersistEffect(v) == Item(JSONStringify(v))

\* What local storage may hold before the page loads: a bookmark array
\* written earlier, or such a text cut short (a corrupt entry).
PresetArrays == {JSONStringify(ids) : ids \in DistinctSeqs(1..MaxId, MaxPresetIds)}

PresetTexts ==
  PresetArrays \cup {SubSeq(s, 1, k) : <<s, k>> \in
                       {p \in PresetArrays \X (0..(MaxPresetIds * 2 + 1)) : p[2] < Len(p[1])}}

PresetStorage(s) ==
  /\ phase = "unloaded"
  /\ storage = AbsentItem
  /\ storage' = Item(s)
  /\ UNCHANGED <<phase, bookmarkedIds>>
  /\ UNCHANGED <<jobVars, toast, debounceVars, activeVars>>

\* The page loads (or reloads): BookmarksContextProvider renders
\* useLocalStorage("bookmarkedIds", []); when the initialiser throws nothing
\* is mounted, otherwise the effect persists the value.
LoadPage ==
  /\ LET r == UseLocalStorageInit(storage, <<>>)
     IN  IF r.ok
           THEN /\ phase' = "running"
                /\ bookmarkedIds' = r.value
                /\ storage' = PersistEffect(r.value)
           ELSE /\ phase' = "crashed"
                /\ bookmarkedIds' = <<>>
                /\ storage' = storage
  /\ UNCHANGED <<jobVars, toast, debounceVars, activeVars>>

\* toggle(id): add if absent, remove if present.
ToggleId(ids, id) ==
  IF \E i \in 1..Len(ids) : ids[i] = id
    THEN SelectSeq(ids, LAMBDA x : x # id)
    ELSE Append(ids, id)

\* BookmarkIcon's onClick: handleToggleBookmark(id) sets the value, and the
\* re-render runs the persisting effect.
handleToggleBookmark(id) ==
  /\ phase = "running"
  /\ bookmarkedIds' = ToggleId(bookmarkedIds, id)
  /\ storage' = PersistEffect(bookmarkedIds')
  /\ UNCHANGED phase
  /\ UNCHANGED <<jobVars, toast, debounceVars, activeVars>>

----------------------------------------------------------------------------
(* useActiveId and useJobItem *)

HashChars == {"1", "a"}

RECURSIVE Strings(_, _)
Strings(S, n) ==
  IF n = 0 THEN {<<>>}
  ELSE LET shorter == Strings(S, n - 1)
       IN  shorter \cup {Append(s, c) : <<s, c>> \in shorter \X S}

\* window.location.hash: "" or "#" followed by the fragment.
Hashes == {<<>>} \cup {<<"#">> \o s : s \in Strings(HashChars, MaxHashLen)}

NullId == [kind |-> "null", n |-> 0]

NumberId(n) == [kind |-> "number", n |-> n]

NaNId == [kind |-> "NaN", n |-> 0]

\* Unary plus on a string of digits and letters: "" is 0, decimal digits are
\* their value, anything else is NaN.
ToNumber(s) ==
  IF s = <<>> THEN NumberId(0)
  ELSE IF \A i \in 1..Len(s) : IsDigit(s[i]) THEN NumberId(StringToNumber(s))
  ELSE NaNId

\* handleHashChange: +window.location.hash.slice(1)
handleHashChange(h) == ToNumber(JSSlice(h, 1, Len(h)))

ItemIds == {StringToNumber(s) : s \in {x \in Strings(HashChars, MaxHashLen) : IsNumberLiteral(x)}}

ItemResponses ==
  { [kind |-> "reject", ok |-> FALSE, description |-> Undefined],
    [kind |-> "http", ok |-> FALSE, description |-> "Not found"],
    [kind |-> "http", ok |-> FALSE, description |-> Undefined],
    [kind |-> "http", ok |-> TRUE, description |-> Undefined] }

\* fetchJobItem: as fetchJobItems, for GET /{id}.
fetchJobItem(res) ==
  IF res.kind = "reject"
    THEN [threw |-> TRUE, error |-> ErrorObj("Failed to fetch")]
  ELSE IF ~res.ok
    THEN [threw |-> TRUE, error |-> ErrorObj(ErrorMessage(res.description))]
  ELSE [threw |-> FALSE, error |-> ErrorObj("")]

\* enabled: Boolean(id); null, 0 and NaN are falsy.
ItemEnabled(id) == id.kind = "number" /\ id.n # 0

ObserveItem(cache, id) ==
  IF ItemEnabled(id) /\ cache[id.n] \in {"idle", "error"}
    THEN [cache EXCEPT ![id.n] = "fetching"]
    ELSE cache

\* The effect of useActiveId runs once after the first render: it reads the
\* fragment and registers the hashchange listener.
MountActiveId ==
  /\ ~mounted
  /\ mounted' = TRUE
  /\ activeId' = handleHashChange(hash)
  /\ itemCache' = ObserveItem(itemCache, activeId')
  /\ UNCHANGED hash
  /\ UNCHANGED <<jobVars, toast, debounceVars, bookmarkVars>>

\* The fragment changes; once mounted the hashchange listener runs.
Navigate(h) ==
  /\ h # hash
  /\ hash' = h
  /\ IF mounted
       THEN /\ activeId' = handleHashChange(h)
            /\ itemCache' = ObserveItem(itemCache, activeId')
       ELSE UNCHANGED <<activeId, itemCache>>
  /\ UNCHANGED mounted
  /\ UNCHANGED <<jobVars, toast, debounceVars, bookmarkVars>>

SettleItemFetch(id, res) ==
  /\ itemCache[id] = "fetching"
  /\ LET r == fetchJobItem(res)
     IN  IF r.threw
           THEN /\ itemCache' = [itemCache EXCEPT ![id] = "error"]
                /\ toast' = IF activeId = NumberId(id) THEN <<handleError(r.error)>> ELSE toast
           ELSE /\ itemCache' = [itemCache EXCEPT ![id] = "success"]
                /\ toast' = toast
  /\ UNCHANGED <<mounted, hash, activeId>>
  /\ UNCHANGED <<jobVars, debounceVars, bookmarkVars>>

----------------------------------------------------------------------------
(* Specifications *)

Init ==
  /\ RESULTS_PER_PAGE \in 1..MaxPageSize
  /\ debouncedSearchText = ""
  /\ searchCache = [t \in SearchTexts |-> IdleEntry]
  /\ currentPage = 1
  /\ sortBy = "relevant"
  /\ toast = <<>>
  /\ value = InitialValue
  /\ debouncedValue = InitialValue
  /\ timers = SetTimeout({}, InitialValue, 0)
  /\ now = 0
  /\ changeLog = <<>>
  /\ outLog = <<>>
  /\ phase = "unloaded"
  /\ storage = AbsentItem
  /\ bookmarkedIds = <<>>
  /\ mounted = FALSE
  /\ hash = <<>>
  /\ activeId = NullId
  /\ itemCache = [i \in ItemIds |-> "idle"]

\* The job-items provider: search, sort, pagination, error toasts.
Next ==
  \/ \E t \in SearchTexts : ChangeSearchText(t)
  \/ \E t \in SearchTexts, res \in SearchResponses : SettleSearchFetch(t, res)
  \/ \E d \in {"next", "previous"} : handleChangePage(d)
  \/ \E s \in {"relevant", "recent"} : handleChangeSortBy(s)

Spec == Init /\ [][Next]_vars

NextDebounce ==
  \/ \E v \in DebounceValues, gap \in Gaps : ChangeValue(v, gap)
  \/ TimerFire

SpecDebounce == Init /\ [][NextDebounce]_vars

NextBookmarks ==
  \/ \E s \in PresetTexts : PresetStorage(s)
  \/ LoadPage
  \/ \E id \in 1..MaxId : handleToggleBookmark(id)

SpecBookmarks == Init /\ [][NextBookmarks]_vars

NextActive ==
  \/ MountActiveId
  \/ \E h \in Hashes : Navigate(h)
  \/ \E id \in ItemIds, res \in ItemResponses : SettleItemFetch(id, res)

SpecActive == Init /\ [][NextActive]_vars

----------------------------------------------------------------------------
(* Properties *)

Ceil(n, d) == (n + d - 1) \div d

fetchedItems == IF jobItems.defined THEN jobItems.items ELSE <<>>

\* C1: every step that changes the sort order, or changes the debounced
\* search text to one with a different result set, leaves currentPage = 1.
C1_PageResetOnSortOrSearch ==
  [][(sortBy' # sortBy
        \/ (debouncedSearchText' # debouncedSearchText /\ jobItems' # jobItems))
       => currentPage' = 1]_vars

\* C2: currentPage always lies in 1 .. max(1, ceil(total / pageSize)), and
\* the displayed slice is empty only when there are no results.
C2_PageClamped ==
  /\ 1 <= currentPage
  /\ currentPage <= Max(1, Ceil(totalNumberOfResults, RESULTS_PER_PAGE))
  /\ (jobItemsSortedAndSliced = <<>> => totalNumberOfResults = 0)

\* The input value in force at time t: that of the last change made at or
\* before t.
InputAt(t) ==
  LET before == {j \in 1..Len(changeLog) : changeLog[j].t <= t}
  IN  IF before = {} THEN InitialValue
      ELSE changeLog[CHOOSE j \in before : \A k \in before : k <= j].v

ScenarioInputs ==
  /\ Len(changeLog) = 3
  /\ changeLog[1].t = 0 /\ changeLog[2].t = 10 /\ changeLog[3].t = 20

\* C3: every propagated value is output a full delay after the last input
\* change, with no input change in between, and is the input value then in
\* force (never an intermediate one); at most one timer is pending; and for
\* inputs at t = 0, 10, 20 and none after, nothing is propagated before
\* t = 520 and exactly the last value is propagated at t = 520.
C3_Debounce ==
  /\ Cardinality(timers) <= 1
  /\ \A i \in 1..Len(outLog) :
       /\ ~\E j \in 1..Len(changeLog) :
            /\ outLog[i].t - Delay < changeLog[j].t
            /\ changeLog[j].t < outLog[i].t
       /\ outLog[i].v = InputAt(outLog[i].t - Delay)
  /\ ScenarioInputs =>
       /\ now < 20 + Delay => outLog = <<>>
       /\ timers # {} => outLog = <<>>
       /\ timers = {} => outLog = <<[t |-> 20 + Delay, v |-> changeLog[3].v]>>

\* Inputs at 0, 10 and 20, and the one propagation at 520 has happened.
C3_Witness ==
  /\ ScenarioInputs
  /\ now = 20 + Delay
  /\ Len(outLog) = 1
  /\ debouncedValue = value
  /\ debouncedValue # InitialValue

RECURSIVE ConcatPages(_, _, _)
ConcatPages(sorted, lastPage, pageSize) ==
  IF lastPage = 0 THEN <<>>
  ELSE ConcatPages(sorted, lastPage - 1, pageSize) \o PageSlice(sorted, lastPage, pageSize)

\* C4: every page slice has at most pageSize items, and the slices of pages
\* 1 .. ceil(total / pageSize), concatenated in order, are the sorted list.
C4_Pagination ==
  LET pages == Ceil(Len(jobItemsSorted), RESULTS_PER_PAGE)
  IN  /\ Len(jobItemsSortedAndSliced) <= RESULTS_PER_PAGE
      /\ \A p \in 1..pages : Len(PageSlice(jobItemsSorted, p, RESULTS_PER_PAGE)) <= RESULTS_PER_PAGE
      /\ ConcatPages(jobItemsSorted, pages, RESULTS_PER_PAGE) = jobItemsSorted

\* Three results, two per page, and the last, partial page is shown.
C4_Witness ==
  /\ Len(jobItemsSorted) = 3
  /\ RESULTS_PER_PAGE = 2
  /\ currentPage = 2
  /\ Len(jobItemsSortedAndSliced) = 1

Count(s, x) == Cardinality({i \in 1..Len(s) : s[i] = x})

IsPermutation(s, t) ==
  /\ Len(s) = Len(t)
  /\ \A i \in 1..Len(t) : Count(s, t[i]) = Count(t, t[i])

\* C5: the sorted list is a permutation of the fetched list, non-increasing
\* in relevanceScore under "relevant", non-decreasing in daysAgo under
\* "recent"; under any other sortBy value the fetched order is kept.
C5_Sorted ==
  /\ IsPermutation(jobItemsSorted, fetchedItems)
  /\ sortBy = "relevant" =>
       \A i \in 1..(Len(jobItemsSorted) - 1) :
         jobItemsSorted[i].relevanceScore >= jobItemsSorted[i + 1].relevanceScore
  /\ sortBy = "recent" =>
       \A i \in 1..(Len(jobItemsSorted) - 1) :
         jobItemsSorted[i].daysAgo <= jobItemsSorted[i + 1].daysAgo
  /\ SortJobItems(fetchedItems, "unrecognized") = fetchedItems

\* Three fetched items that sorting by "recent" had to reorder.
C5_Witness ==
  /\ Len(fetchedItems) = 3
  /\ sortBy = "recent"
  /\ jobItemsSorted # fetchedItems
  /\ SortJobItems(fetchedItems, "relevant") # jobItemsSorted

\* C6: no fetch is ever issued for the empty search text, and while the
\* search text is empty jobItems is undefined and isLoading is false.
C6_EmptySearchDisabled ==
  /\ searchCache[""] = IdleEntry
  /\ debouncedSearchText = "" => (~jobItems.defined /\ ~isLoading)

\* The search text is empty again after a search loaded results.
C6_Witness ==
  /\ debouncedSearchText = ""
  /\ \E t \in SearchTexts :
       searchCache[t].status = "success" /\ Len(searchCache[t].jobItems) > 0

\* C7: a page load that finds the bookmark entry absent or not valid JSON
\* ends running with the empty bookmark set (no exception).
C7_CorruptStorageDefaults ==
  [][(LoadPage /\ (~storage.present \/ ~JSONParse(storage.text).ok))
       => (phase' = "running" /\ bookmarkedIds' = <<>>)]_vars

\* C8: while the page runs, the stored entry is the JSON text of the
\* bookmark set, and initialising from it yields that same set.
C8_PersistedRoundTrip ==
  phase = "running" =>
    /\ storage = Item(JSONStringify(bookmarkedIds))
    /\ UseLocalStorageInit(storage, <<>>) = [ok |-> TRUE, value |-> bookmarkedIds]

\* More ids bookmarked than any preloaded entry holds: toggles have run.
C8_Witness ==
  /\ phase = "running"
  /\ Len(bookmarkedIds) > MaxPresetIds
  /\ storage.present
  /\ Len(storage.text) > 2

\* C9: the message of every error notification is non-empty.
C9_ToastMessageNonEmpty == toast # <<>> => toast[1] # ""

\* The id the fragment names: its digits as an integer, else null.
FragmentId(h) ==
  LET fragment == JSSlice(h, 1, Len(h))
  IN  IF IsNumberLiteral(fragment) THEN NumberId(StringToNumber(fragment)) ELSE NullId

\* C10: once mounted, activeId is the integer the fragment names, and null
\* when the fragment is empty or not numeric.
C10_ActiveIdOrNull == mounted => activeId = FragmentId(hash)

====
